---- MODULE Spec2Model ----
(***************************************************************************)
(* Model of the automation engine of c2c_bot: core/selenium_worker.py      *)
(* (SeleniumWorker: start/stop, _run, _poll_loop, _poll_once,              *)
(* _process_row) as a state machine.  The worker thread is one process     *)
(* whose position is pc; the control surface (the asyncio event loop       *)
(* thread) is a second process whose position is ctl.  Every Selenium      *)
(* driver call is a nondeterministic choice among the results the call     *)
(* can produce (a value, or one of the exception classes the code          *)
(* distinguishes).                                                         *)
(***************************************************************************)
EXTENDS Integers, Sequences, FiniteSets, TLC

\* ---------------------------------------------------------------- bounds
MaxRows == 2
MaxAmount == 2
MaxAttempts == 2
MaxReauthFails == 2

\* ------------------------------------------------------------ value sets
\* Python None for Optional[float]; parsed amounts are abs() values, >= 0.
None == -1
\* Python None for Optional[str] (slug).
NoSlug == "None"
Slugs == {"trade-a", "trade-b"}
Amounts == 0..MaxAmount
Logins == {"u1"}
Passwords == {"pw"}
FilterBounds == {None, 1}

\* Results of a driver call, by the exception class the handlers distinguish.
OK == "ok"
NOSUCH == "NoSuchElementException"
TIMEOUT == "TimeoutException"
STALE == "StaleElementReferenceException"
NOALERT == "NoAlertPresentException"
WDE == "WebDriverException"
\* an exception that is not a WebDriverException (the driver process is
\* gone and the HTTP client raises, for instance)
EXC == "Exception"

VARIABLES
    thread,          \* self._thread: "none" | "alive" | "dead"
    stop_event,      \* self._stop_event.is_set()
    driver,          \* self._driver is not None
    cfg,             \* self.login, self.min_amount, self.max_amount
    processed_slugs, \* self._processed_slugs
    pc,              \* position of the worker thread
    ctl,             \* position of the control surface: "idle" | "joining"
    onLogin,         \* "/login" in driver.current_url
    rowsLeft,        \* row handles of this cycle's list not yet iterated
    cur,             \* the _process_row invocation in progress / just returned
    taken,           \* return value of the last _process_row
    cycleSlugs,      \* slugs of the rows already iterated in this cycle
    attempts,        \* history: detail views opened per slug in this run
    cycleClaims,     \* history: on_order_taken calls in this cycle
    recovered,       \* history: a re-authentication succeeded in this run
    nThreads,        \* history: worker threads launched and not yet ended
    nDrivers,        \* history: browser drivers created and not yet quit
    polled,          \* history: this run entered _poll_loop
    reauthFails,     \* history: consecutive failed re-authentications
    op               \* OrderProcessor: settings row and request in progress

\* saturating history counters stay within their bound
Min(a, b) == IF a < b THEN a ELSE b

\* the state of the SeleniumWorker and of its thread
wvars == <<thread, stop_event, driver, cfg, processed_slugs, pc, ctl, onLogin,
           rowsLeft, cur, taken, cycleSlugs, attempts, cycleClaims, recovered,
           nThreads, nDrivers, polled, reauthFails>>

vars == <<thread, stop_event, driver, cfg, processed_slugs, pc, ctl, onLogin,
          rowsLeft, cur, taken, cycleSlugs, attempts, cycleClaims, recovered,
          nThreads, nDrivers, polled, reauthFails, op>>

NoCfg == [login |-> "", password |-> "", min_amount |-> None,
          max_amount |-> None]

\* OrderProcessor and the settings row it reads: the stored credentials,
\* filter and is_active flag (models.Settings defaults), the position of the
\* start()/stop() coroutine in progress, the settings it loaded, its result
NoRequest == [login |-> "", password |-> "", min_amount |-> None,
              max_amount |-> None, is_active |-> FALSE,
              req |-> "idle", snap |-> NoCfg, ret |-> "none"]

\* locals of _process_row (slug, amount) and what the invocation did
NoRow == [slug |-> NoSlug, amount |-> None, started |-> FALSE,
          clicked |-> FALSE, alert |-> "none", exit |-> "none",
          cbTaken |-> 0, cbFailed |-> 0, evSlug |-> NoSlug, evAmount |-> None]

Init ==
    /\ thread = "none"
    /\ stop_event = FALSE
    /\ driver = FALSE
    /\ cfg = NoCfg
    /\ processed_slugs = {}
    /\ pc = "done"
    /\ ctl = "idle"
    /\ onLogin = FALSE
    /\ rowsLeft = 0
    /\ cur = NoRow
    /\ taken = FALSE
    /\ cycleSlugs = {}
    /\ attempts = [s \in Slugs |-> 0]
    /\ cycleClaims = 0
    /\ recovered = FALSE
    /\ nThreads = 0
    /\ nDrivers = 0
    /\ polled = FALSE
    /\ reauthFails = 0
    /\ op = NoRequest

\* ------------------------------------------------- control surface thread
\* the variables only the worker thread writes
workerVars == <<driver, processed_slugs, onLogin, rowsLeft, cur, taken,
                cycleSlugs, attempts, cycleClaims, recovered, nDrivers,
                polled, reauthFails>>

\* start without the is_alive guard: every call launches a thread
start_no_guard(login, password, min_amount, max_amount) ==
    /\ ctl = "idle"
    /\ cfg' = [login |-> login, password |-> password,
               min_amount |-> min_amount, max_amount |-> max_amount]
    /\ stop_event' = FALSE
    /\ thread' = "alive"
    /\ nThreads' = Min(nThreads + 1, 2)
    /\ polled' = FALSE
    /\ reauthFails' = 0
    /\ pc' = "create_driver"
    /\ rowsLeft' = 0
    /\ cur' = NoRow
    /\ taken' = FALSE
    /\ cycleSlugs' = {}
    /\ attempts' = [s \in Slugs |-> 0]
    /\ cycleClaims' = 0
    /\ recovered' = FALSE
    /\ UNCHANGED <<driver, processed_slugs, ctl, onLogin, nDrivers>>

\* start that stores credentials and filter before it tests is_alive
start_overwrites_cfg(login, password, min_amount, max_amount) ==
    /\ ctl = "idle"
    /\ cfg' = [login |-> login, password |-> password,
               min_amount |-> min_amount, max_amount |-> max_amount]
    /\ IF thread = "alive"
       THEN UNCHANGED <<thread, stop_event, driver, processed_slugs, pc, ctl,
                        onLogin, rowsLeft, cur, taken, cycleSlugs, attempts,
                        cycleClaims, recovered, nThreads, nDrivers, polled,
                        reauthFails>>
       ELSE /\ stop_event' = FALSE
            /\ thread' = "alive"
            /\ nThreads' = nThreads + 1
            /\ polled' = FALSE
            /\ reauthFails' = 0
            /\ pc' = "create_driver"
            /\ rowsLeft' = 0
            /\ cur' = NoRow
            /\ taken' = FALSE
            /\ cycleSlugs' = {}
            /\ attempts' = [s \in Slugs |-> 0]
            /\ cycleClaims' = 0
            /\ recovered' = FALSE
            /\ UNCHANGED <<driver, processed_slugs, ctl, onLogin, nDrivers>>

\* start that leaves the stop event as the previous stop() left it
start_no_clear(login, password, min_amount, max_amount) ==
    /\ ctl = "idle"
    /\ IF thread = "alive"
       THEN UNCHANGED wvars
       ELSE /\ cfg' = [login |-> login, password |-> password,
                       min_amount |-> min_amount, max_amount |-> max_amount]
            /\ stop_event' = stop_event
            /\ thread' = "alive"
            /\ nThreads' = nThreads + 1
            /\ polled' = FALSE
            /\ reauthFails' = 0
            /\ pc' = "create_driver"
            /\ rowsLeft' = 0
            /\ cur' = NoRow
            /\ taken' = FALSE
            /\ cycleSlugs' = {}
            /\ attempts' = [s \in Slugs |-> 0]
            /\ cycleClaims' = 0
            /\ recovered' = FALSE
            /\ UNCHANGED <<driver, processed_slugs, ctl, onLogin, nDrivers>>

\* SeleniumWorker.start: rejected while the thread is alive; otherwise
\* stores credentials and filter, clears the stop event, launches _run.
\* _processed_slugs is not touched.
start(login, password, min_amount, max_amount) ==
    /\ ctl = "idle"
    /\ IF thread = "alive"
       THEN UNCHANGED wvars
       ELSE /\ cfg' = [login |-> login, password |-> password,
                       min_amount |-> min_amount, max_amount |-> max_amount]
            /\ stop_event' = FALSE
            /\ thread' = "alive"
            /\ nThreads' = nThreads + 1
            /\ polled' = FALSE
            /\ reauthFails' = 0
            /\ pc' = "create_driver"
            /\ rowsLeft' = 0
            /\ cur' = NoRow
            /\ taken' = FALSE
            /\ cycleSlugs' = {}
            /\ attempts' = [s \in Slugs |-> 0]
            /\ cycleClaims' = 0
            /\ recovered' = FALSE
            /\ UNCHANGED <<driver, processed_slugs, ctl, onLogin, nDrivers>>

\* SeleniumWorker.stop, first half: set the event, then join if a thread
\* object exists.
stop ==
    /\ ctl = "idle"
    /\ stop_event' = TRUE
    /\ ctl' = IF thread = "none" THEN "idle" ELSE "joining"
    /\ UNCHANGED <<thread, cfg, pc, nThreads>>
    /\ UNCHANGED workerVars

\* SeleniumWorker.stop, second half: join(timeout=15) returns because the
\* thread has ended or because the timeout elapsed.
stop_join ==
    /\ ctl = "joining"
    /\ \E timedOut \in BOOLEAN :
          /\ (thread = "alive") => timedOut
          /\ ctl' = "idle"
    /\ UNCHANGED <<thread, stop_event, cfg, pc, nThreads>>
    /\ UNCHANGED workerVars

\* The site invalidates the session: the browser ends up on /login.  The
\* worker reads the URL only in _navigate_to_orders and at the two checks
\* of _poll_once, so expiry is placed at the steps that precede a check.
SessionExpires ==
    /\ driver
    /\ ~onLogin
    /\ pc \in {"loop_top", "expiry1", "refresh", "expiry2", "wait"}
    /\ onLogin' = TRUE
    /\ UNCHANGED <<thread, stop_event, driver, cfg, processed_slugs, pc, ctl,
                   rowsLeft, cur, taken, cycleSlugs, attempts, cycleClaims,
                   recovered, nThreads, nDrivers, polled, reauthFails, op>>

\* ------------------------------------------------------ worker: _run
ctlVars == <<thread, stop_event, cfg, ctl, nThreads, op>>
ghostVars == <<nDrivers, polled, reauthFails>>
rowVars == <<rowsLeft, cur, taken, cycleSlugs, attempts, cycleClaims>>

\* _run: self._driver = self._create_driver()
create_driver ==
    /\ pc = "create_driver"
    /\ \E r \in {OK, WDE} :
          IF r = OK
          THEN driver' = TRUE /\ nDrivers' = nDrivers + 1 /\ pc' = "navigate"
          ELSE driver' = driver /\ nDrivers' = nDrivers /\ pc' = "quit"
    /\ UNCHANGED ctlVars
    /\ UNCHANGED <<polled, reauthFails>>
    /\ UNCHANGED rowVars
    /\ UNCHANGED <<processed_slugs, onLogin, recovered>>

\* a _run without the finally: a failed navigation ends the thread at once
navigate_to_orders_no_finally ==
    /\ pc = "navigate"
    /\ \E r \in {OK, "RuntimeError", WDE} :
          IF r = OK
          THEN /\ onLogin' = FALSE
               /\ pc' = "apply_filter"
               /\ UNCHANGED <<thread, nThreads>>
          ELSE /\ onLogin' = TRUE
               /\ pc' = "done"
               /\ thread' = "dead"
               /\ nThreads' = nThreads - 1
    /\ UNCHANGED <<stop_event, cfg, ctl, op>>
    /\ UNCHANGED ghostVars
    /\ UNCHANGED rowVars
    /\ UNCHANGED <<driver, processed_slugs, recovered>>

\* _navigate_to_orders called from _run: returns with the orders page
\* loaded, or raises (still on the login page, or a driver error).
navigate_to_orders ==
    /\ pc = "navigate"
    /\ \E r \in {OK, "RuntimeError", WDE} :
          CASE r = OK -> onLogin' = FALSE /\ pc' = "apply_filter"
            [] r = "RuntimeError" -> onLogin' = TRUE /\ pc' = "quit"
            [] OTHER -> onLogin' \in BOOLEAN /\ pc' = "quit"
    /\ UNCHANGED ctlVars
    /\ UNCHANGED ghostVars
    /\ UNCHANGED rowVars
    /\ UNCHANGED <<driver, processed_slugs, recovered>>

\* the steps of _apply_amount_filter at which a driver call can fail: the
\* read of current_url for the entry log line, opening the filter panel,
\* the debug dump of the rows, _find_amount_row, the checkbox lookup, the
\* checkbox state and click and the parentNode script, the select, the
\* inputs, the submit with the wait for the table
FilterSteps == {"entry", "open_panel", "dump_rows", "find_row", "checkbox",
                "toggle", "select", "inputs", "submit"}
FilterErrors == {TIMEOUT, NOSUCH, STALE, WDE}

\* _apply_amount_filter with bounds min_amount, max_amount when the driver
\* raises err at step: TRUE when the exception leaves the function.  The
\* entry log line is evaluated before the test for absent bounds; the
\* panel and the submit catch TimeoutException only, the row search
\* catches TimeoutException in its first strategy, the checkbox lookup
\* catches NoSuchElementException only, the toggle is outside any try.
apply_amount_filter_raises(min_amount, max_amount, step, err) ==
    CASE step = "entry" -> TRUE
      [] min_amount = None /\ max_amount = None -> FALSE
      [] step \in {"open_panel", "find_row", "submit"} -> err # TIMEOUT
      [] step = "checkbox" -> err # NOSUCH
      [] step = "toggle" -> TRUE
      [] OTHER -> FALSE

\* _apply_amount_filter called from _run: returns, or lets an exception it
\* does not catch escape.
apply_amount_filter ==
    /\ pc = "apply_filter"
    /\ \E r \in {OK, WDE}, step \in FilterSteps, err \in FilterErrors :
          pc' = IF r = WDE /\ apply_amount_filter_raises(
                                 cfg.min_amount, cfg.max_amount, step, err)
                THEN "quit" ELSE "loop_top"
    /\ UNCHANGED ctlVars
    /\ UNCHANGED ghostVars
    /\ UNCHANGED rowVars
    /\ UNCHANGED <<driver, processed_slugs, onLogin, recovered>>

\* a finally clause that ends the thread without quitting the driver
quit_driver_keeps_driver ==
    /\ pc = "quit"
    /\ thread' = "dead"
    /\ nThreads' = nThreads - 1
    /\ pc' = "done"
    /\ UNCHANGED <<stop_event, cfg, ctl, processed_slugs, onLogin, recovered,
                   polled, reauthFails, op, driver, nDrivers>>
    /\ UNCHANGED rowVars

\* _run's finally: _quit_driver, after which the thread ends.
quit_driver ==
    /\ pc = "quit"
    /\ driver' = FALSE
    /\ nDrivers' = IF driver THEN nDrivers - 1 ELSE nDrivers
    /\ thread' = "dead"
    /\ nThreads' = nThreads - 1
    /\ pc' = "done"
    /\ UNCHANGED <<stop_event, cfg, ctl, processed_slugs, onLogin, recovered,
                   polled, reauthFails, op>>
    /\ UNCHANGED rowVars

\* ------------------------------------------------ worker: _poll_loop
\* _poll_loop as "while True": a cycle starts whatever the stop event says
poll_loop_top_no_check ==
    /\ pc = "loop_top"
    /\ pc' = "expiry1"
    /\ cur' = NoRow
    /\ cycleSlugs' = {}
    /\ cycleClaims' = 0
    /\ polled' = TRUE
    /\ UNCHANGED ctlVars
    /\ UNCHANGED <<nDrivers, reauthFails>>
    /\ UNCHANGED <<driver, processed_slugs, onLogin, rowsLeft, taken, attempts,
                   recovered>>

\* while not self._stop_event.is_set(): ... a new cycle starts
poll_loop_top ==
    /\ pc = "loop_top"
    /\ IF stop_event
       THEN pc' = "quit" /\ UNCHANGED <<cur, cycleSlugs, cycleClaims>>
       ELSE /\ pc' = "expiry1"
            /\ cur' = NoRow
            /\ cycleSlugs' = {}
            /\ cycleClaims' = 0
    /\ polled' = TRUE
    /\ UNCHANGED ctlVars
    /\ UNCHANGED <<nDrivers, reauthFails>>
    /\ UNCHANGED <<driver, processed_slugs, onLogin, rowsLeft, taken, attempts,
                   recovered>>

\* a _poll_loop without the try: an exception of a cycle ends _run
poll_loop_except_fatal ==
    /\ pc = "except"
    /\ pc' = "quit"
    /\ UNCHANGED ctlVars
    /\ UNCHANGED ghostVars
    /\ UNCHANGED rowVars
    /\ UNCHANGED <<driver, processed_slugs, onLogin, recovered>>

\* the except clauses of _poll_loop: break if stop is set, else sleep(2)
poll_loop_except ==
    /\ pc = "except"
    /\ pc' = IF stop_event THEN "quit" ELSE "wait"
    /\ UNCHANGED ctlVars
    /\ UNCHANGED ghostVars
    /\ UNCHANGED rowVars
    /\ UNCHANGED <<driver, processed_slugs, onLogin, recovered>>

\* self._stop_event.wait(POLL_INTERVAL): returns on timeout or when set
poll_loop_wait ==
    /\ pc = "wait"
    /\ pc' = "loop_top"
    /\ UNCHANGED ctlVars
    /\ UNCHANGED ghostVars
    /\ UNCHANGED rowVars
    /\ UNCHANGED <<driver, processed_slugs, onLogin, recovered>>

\* ------------------------------------------------ worker: _poll_once
\* _is_on_login_page() before the refresh (at = "expiry1") and after it
\* (at = "expiry2"); on login the cycle re-authenticates and returns.
poll_expiry_check(at, next) ==
    /\ pc = at
    /\ pc' = IF onLogin THEN "reauth" ELSE next
    /\ reauthFails' = IF onLogin THEN reauthFails ELSE 0
    /\ UNCHANGED ctlVars
    /\ UNCHANGED <<nDrivers, polled>>
    /\ UNCHANGED rowVars
    /\ UNCHANGED <<driver, processed_slugs, onLogin, recovered>>

\* _re_authenticate that starts the new session with a fresh processed set
re_authenticate_clears ==
    /\ pc = "reauth"
    /\ \E r \in {OK, "RuntimeError", WDE, "FilterError"} :
          /\ CASE r = OK -> onLogin' = FALSE /\ recovered' = TRUE
               [] r = "FilterError" -> onLogin' = FALSE /\ recovered' = TRUE
               [] r = "RuntimeError" -> onLogin' = TRUE /\ UNCHANGED recovered
               [] OTHER -> onLogin' \in BOOLEAN /\ UNCHANGED recovered
          /\ reauthFails' = IF r = OK THEN 0
                            ELSE Min(reauthFails + 1, MaxReauthFails)
    /\ processed_slugs' = {}
    /\ pc' = "wait"
    /\ UNCHANGED ctlVars
    /\ UNCHANGED <<nDrivers, polled>>
    /\ UNCHANGED rowVars
    /\ UNCHANGED driver

\* _re_authenticate that lets the second consecutive failure end the run
re_authenticate_gives_up ==
    /\ pc = "reauth"
    /\ \E r \in {OK, "RuntimeError", WDE, "FilterError"} :
          /\ CASE r = OK -> onLogin' = FALSE /\ recovered' = TRUE
               [] r = "FilterError" -> onLogin' = FALSE /\ recovered' = TRUE
               [] r = "RuntimeError" -> onLogin' = TRUE /\ UNCHANGED recovered
               [] OTHER -> onLogin' \in BOOLEAN /\ UNCHANGED recovered
          /\ reauthFails' = IF r = OK THEN 0
                            ELSE Min(reauthFails + 1, MaxReauthFails)
          /\ pc' = IF r # OK /\ reauthFails >= 1 THEN "quit" ELSE "wait"
    /\ UNCHANGED ctlVars
    /\ UNCHANGED <<nDrivers, polled>>
    /\ UNCHANGED rowVars
    /\ UNCHANGED <<driver, processed_slugs>>

\* a _poll_once that goes on with the cycle after _re_authenticate
re_authenticate_continues ==
    /\ pc = "reauth"
    /\ \E r \in {OK, "RuntimeError", WDE, "FilterError"} :
          /\ CASE r = OK -> onLogin' = FALSE /\ recovered' = TRUE
               [] r = "FilterError" -> onLogin' = FALSE /\ recovered' = TRUE
               [] r = "RuntimeError" -> onLogin' = TRUE /\ UNCHANGED recovered
               [] OTHER -> onLogin' \in BOOLEAN /\ UNCHANGED recovered
          /\ reauthFails' = IF r = OK THEN 0
                            ELSE Min(reauthFails + 1, MaxReauthFails)
          /\ pc' = IF r = OK THEN "wait_table" ELSE "wait"
    /\ UNCHANGED ctlVars
    /\ UNCHANGED <<nDrivers, polled>>
    /\ UNCHANGED rowVars
    /\ UNCHANGED <<driver, processed_slugs>>

\* _re_authenticate: _navigate_to_orders then _apply_amount_filter, every
\* exception caught and logged; _poll_once returns after it.
re_authenticate ==
    /\ pc = "reauth"
    /\ \E r \in {OK, "RuntimeError", WDE, "FilterError"} :
          /\ CASE r = OK -> onLogin' = FALSE /\ recovered' = TRUE
               [] r = "FilterError" -> onLogin' = FALSE /\ recovered' = TRUE
               [] r = "RuntimeError" -> onLogin' = TRUE /\ UNCHANGED recovered
               [] OTHER -> onLogin' \in BOOLEAN /\ UNCHANGED recovered
          /\ reauthFails' = IF r = OK THEN 0
                            ELSE Min(reauthFails + 1, MaxReauthFails)
    /\ pc' = "wait"
    /\ UNCHANGED ctlVars
    /\ UNCHANGED <<nDrivers, polled>>
    /\ UNCHANGED rowVars
    /\ UNCHANGED <<driver, processed_slugs>>

\* refresh button click, falling back to driver.get on NoSuchElement or
\* Timeout; any other driver error (or one raised by driver.get) escapes
\* to _poll_loop.
poll_refresh ==
    /\ pc = "refresh"
    /\ \E r \in {OK, WDE} : pc' = IF r = OK THEN "expiry2" ELSE "except"
    /\ UNCHANGED ctlVars
    /\ UNCHANGED ghostVars
    /\ UNCHANGED rowVars
    /\ UNCHANGED <<driver, processed_slugs, onLogin, recovered>>

\* _wait_for_table: returns, or lets a driver error escape to _poll_loop
wait_for_table ==
    /\ pc = "wait_table"
    /\ \E r \in {OK, WDE} : pc' = IF r = OK THEN "get_rows" ELSE "except"
    /\ UNCHANGED ctlVars
    /\ UNCHANGED ghostVars
    /\ UNCHANGED rowVars
    /\ UNCHANGED <<driver, processed_slugs, onLogin, recovered>>

\* rows = self._get_order_rows(): the handles of the rendered rows ([] on
\* a driver error); their content is read when each row is processed.
get_order_rows ==
    /\ pc = "get_rows"
    /\ rowsLeft' \in 0..MaxRows
    /\ pc' = "for_row"
    /\ UNCHANGED ctlVars
    /\ UNCHANGED ghostVars
    /\ UNCHANGED <<driver, processed_slugs, onLogin, cur, taken, cycleSlugs,
                   attempts, cycleClaims, recovered>>

\* for row in rows: if self._stop_event.is_set(): return
poll_for_row ==
    /\ pc = "for_row"
    /\ IF rowsLeft = 0 \/ stop_event
       THEN pc' = "wait" /\ UNCHANGED <<rowsLeft, cur>>
       ELSE /\ pc' = "process_row"
            /\ rowsLeft' = rowsLeft - 1
            /\ cur' = NoRow
    /\ UNCHANGED ctlVars
    /\ UNCHANGED ghostVars
    /\ UNCHANGED <<driver, processed_slugs, onLogin, taken, cycleSlugs,
                   attempts, cycleClaims, recovered>>

\* the for loop without the break after a taken order
poll_row_done_no_break ==
    /\ pc = "row_ret"
    /\ pc' = "for_row"
    /\ UNCHANGED ctlVars
    /\ UNCHANGED ghostVars
    /\ UNCHANGED rowVars
    /\ UNCHANGED <<driver, processed_slugs, onLogin, recovered>>

\* the for loop leaving at the first processed row, taken or not
poll_row_done_always_break ==
    /\ pc = "row_ret"
    /\ pc' = "wait"
    /\ UNCHANGED ctlVars
    /\ UNCHANGED ghostVars
    /\ UNCHANGED rowVars
    /\ UNCHANGED <<driver, processed_slugs, onLogin, recovered>>

\* taken = self._process_row(row); if taken: break
poll_row_done ==
    /\ pc = "row_ret"
    /\ pc' = IF taken THEN "wait" ELSE "for_row"
    /\ UNCHANGED ctlVars
    /\ UNCHANGED ghostVars
    /\ UNCHANGED rowVars
    /\ UNCHANGED <<driver, processed_slugs, onLogin, recovered>>

\* ---------------------------------------------- worker: _process_row
\* _amount_in_range without the upper-bound test
amount_in_range_no_max(amount) ==
    IF cfg.min_amount = None /\ cfg.max_amount = None THEN TRUE
    ELSE IF amount = None THEN FALSE
    ELSE IF cfg.min_amount # None /\ amount < cfg.min_amount THEN FALSE
    ELSE TRUE

\* _amount_in_range without the "amount is None" test: a bound that is
\* absent or not exceeded lets an unreadable amount through
amount_in_range_none_passes(amount) ==
    IF cfg.min_amount = None /\ cfg.max_amount = None THEN TRUE
    ELSE IF cfg.min_amount # None /\ amount # None /\ amount < cfg.min_amount
         THEN FALSE
    ELSE IF cfg.max_amount # None /\ amount # None /\ amount > cfg.max_amount
         THEN FALSE
    ELSE TRUE

\* _amount_in_range with exclusive bounds: an amount equal to a bound fails
amount_in_range_exclusive(amount) ==
    IF cfg.min_amount = None /\ cfg.max_amount = None THEN TRUE
    ELSE IF amount = None THEN FALSE
    ELSE IF cfg.min_amount # None /\ amount <= cfg.min_amount THEN FALSE
    ELSE IF cfg.max_amount # None /\ amount >= cfg.max_amount THEN FALSE
    ELSE TRUE

\* _amount_in_range, against self.min_amount / self.max_amount
amount_in_range(amount) ==
    IF cfg.min_amount = None /\ cfg.max_amount = None THEN TRUE
    ELSE IF amount = None THEN FALSE
    ELSE IF cfg.min_amount # None /\ amount < cfg.min_amount THEN FALSE
    ELSE IF cfg.max_amount # None /\ amount > cfg.max_amount THEN FALSE
    ELSE TRUE

\* self._on_order_failed(slug or "unknown", amount)
on_order_failed(c) ==
    [c EXCEPT !.cbFailed = @ + 1,
              !.evSlug = IF c.slug = NoSlug THEN "unknown" ELSE c.slug,
              !.evAmount = c.amount]

\* self._on_order_taken(slug, amount)
on_order_taken(c) ==
    [c EXCEPT !.cbTaken = @ + 1, !.evSlug = c.slug, !.evAmount = c.amount]

\* a return statement of _process_row
process_row_return(c, exit, result) ==
    /\ cur' = [c EXCEPT !.exit = exit]
    /\ taken' = result
    /\ pc' = "row_ret"

\* the except clauses of _process_row, by exception class, in order:
\* NoAlertPresentException, StaleElementReferenceException, then any other
\* WebDriverException (TimeoutException and NoSuchElementException included);
\* an exception of another class is caught by none of them and leaves
\* _process_row and _poll_once for the handler of _poll_loop
process_row_except(c, exc) ==
    CASE exc = NOALERT ->
            /\ processed_slugs' = IF c.slug # NoSlug
                                  THEN processed_slugs \cup {c.slug}
                                  ELSE processed_slugs
            /\ process_row_return(on_order_failed(c), "no_alert", FALSE)
      [] exc = STALE ->
            /\ processed_slugs' = processed_slugs
            /\ process_row_return(c, "stale", FALSE)
      [] exc = EXC ->
            /\ processed_slugs' = processed_slugs
            /\ cur' = [c EXCEPT !.exit = "raised"]
            /\ taken' = FALSE
            /\ pc' = "except"
      [] OTHER ->
            /\ processed_slugs' = processed_slugs
            /\ process_row_return(on_order_failed(c), "wde", FALSE)

\* _process_row up to the anchor lookup: _extract_slug, _extract_amount,
\* the three skip guards, row.find_element(anchor).  The row shows slug rs
\* (NoSlug: no link or no match) and amount ra (None: unreadable); r1, r2,
\* r3 are the results of the three driver reads.
process_row_guards ==
    /\ pc = "process_row"
    /\ \E rs \in (Slugs \ cycleSlugs) \cup {NoSlug}, ra \in Amounts \cup {None},
          r1 \in {OK, STALE, WDE, EXC}, r2 \in {OK, STALE, WDE, EXC},
          r3 \in {OK, NOSUCH, STALE, WDE, EXC} :
          /\ cycleSlugs' = cycleSlugs \cup ({rs} \cap Slugs)
          /\ LET c == [NoRow EXCEPT !.slug = rs, !.amount = ra] IN
             CASE r1 # OK -> process_row_except(NoRow, r1)
               [] r1 = OK /\ r2 # OK ->
                     process_row_except([NoRow EXCEPT !.slug = rs], r2)
               [] r1 = OK /\ r2 = OK /\ rs = NoSlug ->
                     /\ process_row_return(c, "skip_noslug", FALSE)
                     /\ UNCHANGED processed_slugs
               [] r1 = OK /\ r2 = OK /\ rs # NoSlug /\ rs \in processed_slugs ->
                     /\ process_row_return(c, "skip_processed", FALSE)
                     /\ UNCHANGED processed_slugs
               [] OTHER ->
                     IF ~amount_in_range(ra)
                     THEN /\ process_row_return(c, "skip_range", FALSE)
                          /\ UNCHANGED processed_slugs
                     ELSE IF r3 = NOSUCH
                     THEN /\ process_row_return(c, "no_anchor", FALSE)
                          /\ UNCHANGED processed_slugs
                     ELSE IF r3 # OK
                     THEN process_row_except(c, r3)
                     ELSE /\ cur' = c
                          /\ pc' = "open_modal"
                          /\ UNCHANGED <<taken, processed_slugs>>
    /\ UNCHANGED ctlVars
    /\ UNCHANGED ghostVars
    /\ UNCHANGED <<driver, onLogin, rowsLeft, attempts, cycleClaims, recovered>>

\* execute_script(click, anchor): the order's detail view (modal) opens
process_row_open_modal ==
    /\ pc = "open_modal"
    /\ \E r \in {OK, STALE, WDE, EXC} :
          IF r = OK
          THEN /\ cur' = [cur EXCEPT !.started = TRUE]
               /\ attempts' = [attempts EXCEPT
                                 ![cur.slug] = Min(@ + 1, MaxAttempts)]
               /\ pc' = "find_take"
               /\ UNCHANGED <<taken, processed_slugs>>
          ELSE /\ process_row_except(cur, r)
               /\ UNCHANGED attempts
    /\ UNCHANGED ctlVars
    /\ UNCHANGED ghostVars
    /\ UNCHANGED <<driver, onLogin, rowsLeft, cycleSlugs, cycleClaims, recovered>>

\* self._wait(10).until(element_to_be_clickable(take_xpath)); on
\* TimeoutException the slug is added and the modal is closed next
process_row_find_take ==
    /\ pc = "find_take"
    /\ \E r \in {OK, TIMEOUT, STALE, WDE, EXC} :
          CASE r = OK ->
                  /\ pc' = "click_take"
                  /\ UNCHANGED <<cur, taken, processed_slugs>>
            [] r = TIMEOUT ->
                  /\ processed_slugs' = processed_slugs \cup {cur.slug}
                  /\ pc' = "close_modal"
                  /\ UNCHANGED <<cur, taken>>
            [] OTHER -> process_row_except(cur, r)
    /\ UNCHANGED ctlVars
    /\ UNCHANGED ghostVars
    /\ UNCHANGED <<driver, onLogin, rowsLeft, cycleSlugs, attempts, cycleClaims,
                   recovered>>

\* find_element(body).send_keys(ESCAPE); return False
process_row_close_modal ==
    /\ pc = "close_modal"
    /\ \E r \in {OK, STALE, WDE, EXC} :
          IF r = OK
          THEN /\ process_row_return(cur, "no_take", FALSE)
               /\ UNCHANGED processed_slugs
          ELSE process_row_except(cur, r)
    /\ UNCHANGED ctlVars
    /\ UNCHANGED ghostVars
    /\ UNCHANGED <<driver, onLogin, rowsLeft, cycleSlugs, attempts, cycleClaims,
                   recovered>>

\* execute_script(click, take_btn)
process_row_click_take ==
    /\ pc = "click_take"
    /\ \E r \in {OK, STALE, WDE, EXC} :
          IF r = OK
          THEN /\ cur' = [cur EXCEPT !.clicked = TRUE]
               /\ pc' = "confirm_alert"
               /\ UNCHANGED <<taken, processed_slugs>>
          ELSE process_row_except(cur, r)
    /\ UNCHANGED ctlVars
    /\ UNCHANGED ghostVars
    /\ UNCHANGED <<driver, onLogin, rowsLeft, cycleSlugs, attempts, cycleClaims,
                   recovered>>

\* what the browser does after the click on Take: the confirm dialog shows
\* and is accepted, never shows within ALERT_WAIT_TIMEOUT, accept() fails
\* with a driver error, or the driver connection is lost
AlertBehaviours == {"accepted", "timeout", "error", "lost"}

\* _confirm_alert that falls out of its loop at the deadline without raising
confirm_alert_no_raise(alert) ==
    CASE alert = "accepted" -> OK
      [] alert = "timeout" -> OK
      [] alert = "lost" -> EXC
      [] OTHER -> WDE

\* _confirm_alert: returns normally once accept() succeeded, raises
\* NoAlertPresentException when the deadline passes, lets other errors out
confirm_alert(alert) ==
    CASE alert = "accepted" -> OK
      [] alert = "timeout" -> NOALERT
      [] alert = "lost" -> EXC
      [] OTHER -> WDE

\* self._confirm_alert(); then on success add the slug, report, return True
process_row_confirm ==
    /\ pc = "confirm_alert"
    /\ \E alert \in AlertBehaviours :
          LET c == [cur EXCEPT !.alert = alert] IN
          IF confirm_alert(alert) = OK
          THEN /\ processed_slugs' = processed_slugs \cup {c.slug}
               /\ process_row_return(on_order_taken(c), "success", TRUE)
               /\ cycleClaims' = Min(cycleClaims + 1, MaxAttempts)
          ELSE /\ process_row_except(c, confirm_alert(alert))
               /\ UNCHANGED cycleClaims
    /\ UNCHANGED ctlVars
    /\ UNCHANGED ghostVars
    /\ UNCHANGED <<driver, onLogin, rowsLeft, cycleSlugs, attempts, recovered>>

\* ---------------------------------------------------------- specification
Next ==
    \/ \E login \in Logins, password \in Passwords,
          mn \in FilterBounds, mx \in FilterBounds :
          start(login, password, mn, mx) /\ UNCHANGED op
    \/ stop /\ UNCHANGED op
    \/ stop_join /\ UNCHANGED op
    \/ SessionExpires
    \/ create_driver
    \/ navigate_to_orders
    \/ apply_amount_filter
    \/ quit_driver
    \/ poll_loop_top
    \/ poll_loop_except
    \/ poll_loop_wait
    \/ poll_expiry_check("expiry1", "refresh")
    \/ poll_expiry_check("expiry2", "wait_table")
    \/ re_authenticate
    \/ poll_refresh
    \/ wait_for_table
    \/ get_order_rows
    \/ poll_for_row
    \/ poll_row_done
    \/ process_row_guards
    \/ process_row_open_modal
    \/ process_row_find_take
    \/ process_row_close_modal
    \/ process_row_click_take
    \/ process_row_confirm

Spec == Init /\ [][Next]_vars

\* a step of the worker thread
WorkerStep ==
    \/ create_driver
    \/ navigate_to_orders
    \/ apply_amount_filter
    \/ quit_driver
    \/ poll_loop_top
    \/ poll_loop_except
    \/ poll_loop_wait
    \/ poll_expiry_check("expiry1", "refresh")
    \/ poll_expiry_check("expiry2", "wait_table")
    \/ re_authenticate
    \/ poll_refresh
    \/ wait_for_table
    \/ get_order_rows
    \/ poll_for_row
    \/ poll_row_done
    \/ process_row_guards
    \/ process_row_open_modal
    \/ process_row_find_take
    \/ process_row_close_modal
    \/ process_row_click_take
    \/ process_row_confirm

TypeOK ==
    /\ thread \in {"none", "alive", "dead"}
    /\ stop_event \in BOOLEAN
    /\ driver \in BOOLEAN
    /\ processed_slugs \subseteq Slugs
    /\ ctl \in {"idle", "joining"}
    /\ rowsLeft \in 0..MaxRows
    /\ cycleSlugs \subseteq Slugs
    /\ \A s \in Slugs : attempts[s] \in 0..MaxAttempts
    /\ nThreads \in 0..2
    /\ nDrivers \in 0..2
    /\ polled \in BOOLEAN
    /\ reauthFails \in 0..MaxReauthFails

\* ------------------------------------------- OrderProcessor and settings
\* the attributes the ORM class Settings maps; a row object has no others
SettingsColumns == {"id", "login", "password", "min_amount", "max_amount",
                    "is_active"}

\* credentials_save: repo.update(login=..., password=...); the dialogue
\* stores a login and a non-empty password together
credentials_save(login, password) ==
    /\ op' = [op EXCEPT !.login = login, !.password = password]
    /\ UNCHANGED wvars

\* filters_save: repo.update(min_amount=..., max_amount=...)
filters_save(min_amount, max_amount) ==
    /\ op' = [op EXCEPT !.min_amount = min_amount, !.max_amount = max_amount]
    /\ UNCHANGED wvars

\* OrderProcessor.start, up to the end of the session block: the settings
\* row is loaded
OrderProcessor_start_load ==
    /\ op.req = "idle"
    /\ op' = [op EXCEPT !.req = "start_loaded", !.ret = "none",
                        !.snap = [login |-> op.login,
                                  password |-> op.password,
                                  min_amount |-> op.min_amount,
                                  max_amount |-> op.max_amount]]
    /\ UNCHANGED wvars

\* OrderProcessor.start persisting is_active before it reads the row's
\* notify_taken
OrderProcessor_start_active_first ==
    /\ op.req = "start_loaded"
    /\ IF op.snap.login = "" \/ op.snap.password = ""
       THEN /\ op' = [op EXCEPT !.req = "done", !.ret = "false"]
            /\ UNCHANGED wvars
       ELSE IF "notify_taken" \notin SettingsColumns
       THEN /\ op' = [op EXCEPT !.req = "done", !.ret = "AttributeError",
                                !.is_active = TRUE]
            /\ UNCHANGED wvars
       ELSE /\ op' = [op EXCEPT !.req = "done", !.ret = "true",
                                !.is_active = TRUE]
            /\ start(op.snap.login, op.snap.password,
                     op.snap.min_amount, op.snap.max_amount)

\* OrderProcessor.start after the load: the credentials test, the read of
\* settings.notify_taken (and settings.chat_id), _set_active(True),
\* self._worker.start(...), return True
OrderProcessor_start ==
    /\ op.req = "start_loaded"
    /\ IF op.snap.login = "" \/ op.snap.password = ""
       THEN /\ op' = [op EXCEPT !.req = "done", !.ret = "false"]
            /\ UNCHANGED wvars
       ELSE IF "notify_taken" \notin SettingsColumns
       THEN /\ op' = [op EXCEPT !.req = "done", !.ret = "AttributeError"]
            /\ UNCHANGED wvars
       ELSE /\ op' = [op EXCEPT !.req = "done", !.ret = "true",
                                !.is_active = TRUE]
            /\ start(op.snap.login, op.snap.password,
                     op.snap.min_amount, op.snap.max_amount)

\* the caller (bot_start) receives the result or the exception
OrderProcessor_start_return ==
    /\ op.req = "done"
    /\ op' = [op EXCEPT !.req = "idle"]
    /\ UNCHANGED wvars

\* OrderProcessor.stop: await self._set_active(False)
OrderProcessor_stop_set_active ==
    /\ op.req = "idle"
    /\ op' = [op EXCEPT !.req = "stopping", !.is_active = FALSE]
    /\ UNCHANGED wvars

\* OrderProcessor.stop: self._worker.stop()
OrderProcessor_stop ==
    /\ op.req = "stopping"
    /\ stop
    /\ op' = [op EXCEPT !.req = "idle"]

\* the control surface as the bot drives it: settings dialogues and the
\* start and stop buttons, through OrderProcessor.  No step of this
\* specification launches the worker thread, so the worker's own steps are
\* never enabled in it.
NextOP ==
    \/ \E login \in Logins, password \in Passwords :
          credentials_save(login, password)
    \/ \E mn \in FilterBounds, mx \in FilterBounds : filters_save(mn, mx)
    \/ OrderProcessor_start_load
    \/ OrderProcessor_start
    \/ OrderProcessor_start_return
    \/ OrderProcessor_stop_set_active
    \/ OrderProcessor_stop

SpecOP == Init /\ [][NextOP]_vars

\* ------------------------------------------------ _parse_amount_title
\* Titles are sequences of one-character strings.  The worker plays no part
\* here: it stays as constructed while a title is parsed.
IdleWorker ==
    /\ thread = "none"
    /\ stop_event = FALSE
    /\ driver = FALSE
    /\ cfg = NoCfg
    /\ processed_slugs = {}
    /\ pc = "done"
    /\ ctl = "idle"
    /\ onLogin = FALSE
    /\ rowsLeft = 0
    /\ cur = NoRow
    /\ taken = FALSE
    /\ cycleSlugs = {}
    /\ attempts = [s \in Slugs |-> 0]
    /\ cycleClaims = 0
    /\ recovered = FALSE
    /\ nThreads = 0
    /\ nDrivers = 0
    /\ polled = FALSE
    /\ reauthFails = 0

MaxLen == 4

Digits == {"0", "1", "5"}

TitleChars == Digits \cup {",", ".", " ", "-", "R"}

DocTitles ==
    { <<"R", "U", "B", " ", "-", "1", "0", ",", "0", "0", "0", ".", "0", "0">>,
      <<"R", "U", "B", " ", "1", " ", "5", "0", "0", ",", "5", "0">>,
      <<"g", "a", "r", "b", "a", "g", "e">> }

Titles ==
    DocTitles \cup UNION { [1..n -> TitleChars] : n \in 0..MaxLen }

DigitValue(c) == CASE c = "0" -> 0 [] c = "1" -> 1 [] c = "5" -> 5

\* re.sub(r"[^\d,. ]", "", title)
KeptChar(c) == c \in Digits \cup {",", ".", " "}

re_sub(title) == SelectSeq(title, KeptChar)

RECURSIVE lstrip(_)
lstrip(s) == IF s # <<>> /\ Head(s) = " " THEN lstrip(Tail(s)) ELSE s

RECURSIVE rstrip(_)
rstrip(s) ==
    IF s # <<>> /\ s[Len(s)] = " " THEN rstrip(SubSeq(s, 1, Len(s) - 1))
    ELSE s

strip(s) == rstrip(lstrip(s))

\* str.rfind with a one-character needle: 0-based index of the last
\* occurrence, -1 when there is none
rfind(s, c) ==
    LET at == {i \in 1..Len(s) : s[i] = c}
    IN IF at = {} THEN -1
       ELSE (CHOOSE i \in at : \A j \in at : j <= i) - 1

\* str.replace of the one-character string c by the string new
RECURSIVE replace(_, _, _)
replace(s, c, new) ==
    IF s = <<>> THEN <<>>
    ELSE (IF Head(s) = c THEN new ELSE <<Head(s)>>) \o replace(Tail(s), c, new)

RECURSIVE Pow10(_)
Pow10(k) == IF k = 0 THEN 1 ELSE 10 * Pow10(k - 1)

RECURSIVE DigitsToInt(_)
DigitsToInt(s) ==
    IF s = <<>> THEN 0
    ELSE 10 * DigitsToInt(SubSeq(s, 1, Len(s) - 1)) + DigitValue(s[Len(s)])

NoneResult == [kind |-> "None", num |-> 0, den |-> 1]

ValueError == [kind |-> "ValueError", num |-> 0, den |-> 1]

\* float(str): surrounding blanks are ignored; what is left must be digits
\* with at most one dot and at least one digit.  The value is kept as the
\* exact decimal num/den, of which the float is a function.
float(str) ==
    LET t == strip(str)
        dots == {i \in 1..Len(t) : t[i] = "."}
        digs == {i \in 1..Len(t) : t[i] \in Digits}
    IN IF \/ dots \cup digs # 1..Len(t)
          \/ Cardinality(dots) > 1
          \/ digs = {}
       THEN ValueError
       ELSE [kind |-> "float",
             num |-> DigitsToInt(SelectSeq(t, LAMBDA c : c \in Digits)),
             den |-> IF dots = {} THEN 1
                     ELSE Pow10(Len(t) - (CHOOSE i \in dots : TRUE))]

abs(x) == [x EXCEPT !.num = IF x.num < 0 THEN 0 - x.num ELSE x.num]

parse_amount_title_dot_decimal(title) ==
    LET numeric == strip(re_sub(title))
    IN IF numeric = <<>> THEN NoneResult
       ELSE LET n2 == replace(replace(numeric, ",", <<>>), " ", <<>>)
                f == float(n2)
            IN IF f = ValueError THEN NoneResult ELSE abs(f)

parse_amount_title(title) ==
    LET numeric == strip(re_sub(title))
    IN IF numeric = <<>> THEN NoneResult
       ELSE LET last_comma == rfind(numeric, ",")
                last_dot == rfind(numeric, ".")
                n2 == IF last_dot > last_comma
                      THEN replace(replace(numeric, ",", <<>>), " ", <<>>)
                      ELSE replace(replace(replace(numeric, ".", <<>>),
                                           " ", <<>>), ",", <<".">>)
                f == float(n2)
            IN IF f = ValueError THEN NoneResult ELSE abs(f)

NoParse == [kind |-> "pending", num |-> 0, den |-> 1]

InitParse ==
    /\ IdleWorker
    /\ \E title \in Titles : op = [title |-> title, result |-> NoParse]

\* _extract_amount hands a cell title to _parse_amount_title (lines 118, 122)
extract_amount_parse ==
    /\ op.result = NoParse
    /\ op' = [op EXCEPT !.result = parse_amount_title(op.title)]
    /\ UNCHANGED wvars

NextParse == extract_amount_parse

SpecParse == InitParse /\ [][NextParse]_vars

\* ------------------------------------------ OrderProcessor: outcome bridge
\* The automation thread is the source of outcome events: the k-th claim
\* attempt of a run reports slug k through on_order_taken or on_order_failed.
\* op holds the OrderProcessor fields (_loop, _notify_taken, _chat_ids), the
\* position of the callback running on the automation thread (cb), the
\* coroutines handed to the event loop (tasks), and the two sides of the
\* sink: the order_log table and the messages the operator received.
MaxEvents == 2

Chats == {1, 2}

\* list(chat_ids): a copy of the set as a list, in the set's iteration order
RECURSIVE list(_)
list(s) ==
    IF s = {} THEN <<>>
    ELSE LET m == CHOOSE x \in s : \A y \in s : x <= y
         IN <<m>> \o list(s \ {m})

IdleCb == [at |-> "idle", slug |-> 0, status |-> "none",
           began |-> {}, todo |-> <<>>, tried |-> {}]

InitBridge ==
    /\ IdleWorker
    /\ \E loop \in BOOLEAN :
          op = [loop |-> loop, notify_taken |-> TRUE, chat_ids |-> {},
                n |-> 0, cb |-> IdleCb, tasks |-> <<>>,
                order_log |-> <<>>, delivered |-> <<>>]

\* --- event-loop thread
register_chat(chat_id) ==
    /\ chat_id \notin op.chat_ids
    /\ op' = [op EXCEPT !.chat_ids = @ \cup {chat_id}]
    /\ UNCHANGED wvars

set_notify_taken(value) ==
    /\ value # op.notify_taken
    /\ op' = [op EXCEPT !.notify_taken = value]
    /\ UNCHANGED wvars

\* the coroutine runs up to its first await: _broadcast copies the set
send_failed_notification ==
    /\ \E i \in 1..Len(op.tasks) :
          /\ op.tasks[i].at = "scheduled"
          /\ \A j \in 1..(i - 1) : op.tasks[j].at # "scheduled"
          /\ op' = [op EXCEPT !.tasks[i] =
                      [@ EXCEPT !.at = IF op.chat_ids = {} THEN "done"
                                       ELSE "running",
                                !.began = op.chat_ids,
                                !.todo = list(op.chat_ids)]]
    /\ UNCHANGED wvars

\* one await self._bot.send_message(...) of a running _broadcast completes
broadcast ==
    /\ \E i \in 1..Len(op.tasks), r \in {OK, EXC} :
          /\ op.tasks[i].at = "running"
          /\ LET t == op.tasks[i]
                 chat_id == Head(t.todo)
             IN op' = [op EXCEPT
                        !.tasks[i] = [t EXCEPT
                                        !.todo = Tail(t.todo),
                                        !.tried = @ \cup {chat_id},
                                        !.at = IF Tail(t.todo) = <<>>
                                               THEN "done" ELSE "running"],
                        !.delivered = IF r = OK
                                      THEN Append(@, [slug |-> t.slug,
                                                      chat_id |-> chat_id])
                                      ELSE @]
    /\ UNCHANGED wvars

\* --- automation thread
on_taken ==
    /\ op.cb.at = "idle"
    /\ op.n < MaxEvents
    /\ op' = [op EXCEPT !.n = @ + 1,
                        !.cb = [IdleCb EXCEPT !.at = "db", !.slug = op.n + 1,
                                              !.status = "taken"]]
    /\ UNCHANGED wvars

on_failed ==
    /\ op.cb.at = "idle"
    /\ op.n < MaxEvents
    /\ op' = [op EXCEPT !.n = @ + 1,
                        !.cb = [IdleCb EXCEPT !.at = "db", !.slug = op.n + 1,
                                              !.status = "failed"]]
    /\ UNCHANGED wvars

\* the insert commits, or raises and the error is logged
db_add_sync ==
    /\ op.cb.at = "db"
    /\ \E r \in {OK, EXC} :
          op' = [op EXCEPT
                   !.cb.at = "notify",
                   !.order_log = IF r = OK
                                 THEN Append(@, [slug |-> op.cb.slug,
                                                 status |-> op.cb.status])
                                 ELSE @]
    /\ UNCHANGED wvars

\* entry of _tg_send_sync on the automation thread
tg_send_sync(o) ==
    [o EXCEPT !.cb.at = IF o.chat_ids = {} THEN "idle" ELSE "send",
              !.cb.began = o.chat_ids,
              !.cb.todo = list(o.chat_ids)]

on_taken_notify ==
    /\ op.cb.at = "notify"
    /\ op.cb.status = "taken"
    /\ op' = IF op.notify_taken THEN tg_send_sync(op)
             ELSE [op EXCEPT !.cb.at = "idle"]
    /\ UNCHANGED wvars

on_failed_notify ==
    /\ op.cb.at = "notify"
    /\ op.cb.status = "failed"
    /\ op' = IF op.loop
             THEN [op EXCEPT !.cb.at = "idle",
                             !.tasks = Append(@, [at |-> "scheduled",
                                                  slug |-> op.cb.slug,
                                                  began |-> {},
                                                  todo |-> <<>>,
                                                  tried |-> {}])]
             ELSE tg_send_sync(op)
    /\ UNCHANGED wvars

tg_send_sync_live ==
    /\ op.cb.at = "send"
    /\ IF op.chat_ids # op.cb.began
       THEN op' = [op EXCEPT !.cb.at = "raised"]
       ELSE \E r \in {OK, EXC} :
              LET chat_id == Head(op.cb.todo)
              IN op' = [op EXCEPT
                         !.cb.todo = Tail(@),
                         !.cb.tried = @ \cup {chat_id},
                         !.cb.at = IF Tail(op.cb.todo) = <<>> THEN "idle"
                                   ELSE "send",
                         !.delivered = IF r = OK
                                       THEN Append(@, [slug |-> op.cb.slug,
                                                       chat_id |-> chat_id])
                                       ELSE @]
    /\ UNCHANGED wvars

\* one urlopen of the loop of _tg_send_sync returns or raises
tg_send_sync_send ==
    /\ op.cb.at = "send"
    /\ \E r \in {OK, EXC} :
          LET chat_id == Head(op.cb.todo)
          IN op' = [op EXCEPT
                     !.cb.todo = Tail(@),
                     !.cb.tried = @ \cup {chat_id},
                     !.cb.at = IF Tail(op.cb.todo) = <<>> THEN "idle"
                               ELSE "send",
                     !.delivered = IF r = OK
                                   THEN Append(@, [slug |-> op.cb.slug,
                                                   chat_id |-> chat_id])
                                   ELSE @]
    /\ UNCHANGED wvars

CallbackStep ==
    \/ db_add_sync
    \/ on_taken_notify
    \/ on_failed_notify
    \/ tg_send_sync_send

NextBridge ==
    \/ \E chat_id \in Chats : register_chat(chat_id)
    \/ \E value \in BOOLEAN : set_notify_taken(value)
    \/ send_failed_notification
    \/ broadcast
    \/ on_taken
    \/ on_failed
    \/ db_add_sync
    \/ on_taken_notify
    \/ on_failed_notify
    \/ tg_send_sync_send

SpecBridge == InitBridge /\ [][NextBridge]_vars

\* ----------------------------------- control surface beside a live worker
\* The handlers of the bot run on the event-loop thread while the automation
\* thread runs _run.  op holds what they write: the settings row, the
\* registered chats, SeleniumWorker._retry_slug and the handler's answer.
InitOwn ==
    /\ IdleWorker
    /\ op = [login |-> "", password |-> "", min_amount |-> None,
             max_amount |-> None, chat_ids |-> {}, retry_slug |-> NoSlug,
             ret |-> "none"]

is_running ==
    /\ op' = [op EXCEPT !.ret = IF thread = "alive" THEN "true" ELSE "false"]
    /\ UNCHANGED wvars

retry_order_unmarks(slug) ==
    /\ IF thread # "alive"
       THEN /\ op' = [op EXCEPT !.ret = "not_running"]
            /\ UNCHANGED processed_slugs
       ELSE /\ op' = [op EXCEPT !.retry_slug = slug, !.ret = "retry"]
            /\ processed_slugs' = processed_slugs \ {slug}
    /\ UNCHANGED <<thread, stop_event, driver, cfg, pc, ctl, onLogin, rowsLeft,
                   cur, taken, cycleSlugs, attempts, cycleClaims, recovered,
                   nThreads, nDrivers, polled, reauthFails>>

retry_order(slug) ==
    /\ IF thread # "alive"
       THEN op' = [op EXCEPT !.ret = "not_running"]
       ELSE op' = [op EXCEPT !.retry_slug = slug, !.ret = "retry"]
    /\ UNCHANGED wvars

skip_order(slug) ==
    /\ op' = [op EXCEPT !.ret = "skip"]
    /\ UNCHANGED wvars

\* one whole call of _poll_once, as the control surface can observe it: the
\* session may be found expired or restored, slugs may be added to the
\* processed set, and the call returns or raises
poll_once ==
    /\ pc = "expiry1"
    /\ \E r \in {OK, EXC}, login \in BOOLEAN, seen \in SUBSET Slugs :
          /\ pc' = IF r = OK THEN "wait" ELSE "except"
          /\ onLogin' = login
          /\ processed_slugs' = processed_slugs \cup seen
    /\ UNCHANGED ctlVars
    /\ UNCHANGED ghostVars
    /\ UNCHANGED rowVars
    /\ UNCHANGED <<driver, recovered>>

HandlerStep ==
    \/ \E login \in Logins, password \in Passwords,
          mn \in FilterBounds, mx \in FilterBounds :
          start(login, password, mn, mx) /\ UNCHANGED op
    \/ stop /\ UNCHANGED op
    \/ stop_join /\ UNCHANGED op
    \/ is_running
    \/ \E chat_id \in Chats : register_chat(chat_id)
    \/ \E slug \in Slugs : retry_order(slug)
    \/ \E slug \in Slugs : skip_order(slug)
    \/ \E login \in Logins, password \in Passwords :
          credentials_save(login, password)
    \/ \E mn \in FilterBounds, mx \in FilterBounds : filters_save(mn, mx)

NextOwn ==
    \/ \E login \in Logins, password \in Passwords,
          mn \in FilterBounds, mx \in FilterBounds :
          start(login, password, mn, mx) /\ UNCHANGED op
    \/ stop /\ UNCHANGED op
    \/ stop_join /\ UNCHANGED op
    \/ is_running
    \/ \E chat_id \in Chats : register_chat(chat_id)
    \/ \E slug \in Slugs : retry_order(slug)
    \/ \E slug \in Slugs : skip_order(slug)
    \/ \E login \in Logins, password \in Passwords :
          credentials_save(login, password)
    \/ \E mn \in FilterBounds, mx \in FilterBounds : filters_save(mn, mx)
    \/ create_driver
    \/ navigate_to_orders
    \/ apply_amount_filter
    \/ poll_loop_top
    \/ poll_once
    \/ poll_loop_wait
    \/ poll_loop_except
    \/ quit_driver

SpecOwn == InitOwn /\ [][NextOwn]_vars

\* ------------------------------------------- retry beside a running worker
\* The operator presses Retry on Failed notifications while the worker is
\* left to run: no stop request is made and the session does not expire.
\* op holds SeleniumWorker._retry_slug and the handler's answer.
InitRetry ==
    /\ IdleWorker
    /\ op = [retry_slug |-> NoSlug, ret |-> "none"]

\* the Retry button exists on the Failed notification of a slug
\* (callback_data "retry:<slug>"): it is pressed once on_order_failed was
\* called for that slug, here while that row is still the latest processed
retry_pressed(slug) ==
    /\ cur.cbFailed >= 1
    /\ cur.evSlug = slug
    /\ retry_order(slug)

NextRetry ==
    \/ \E login \in Logins, password \in Passwords,
          mn \in FilterBounds, mx \in FilterBounds :
          start(login, password, mn, mx) /\ UNCHANGED op
    \/ \E slug \in Slugs : retry_pressed(slug)
    \/ create_driver
    \/ navigate_to_orders
    \/ apply_amount_filter
    \/ quit_driver
    \/ poll_loop_top
    \/ poll_loop_except
    \/ poll_loop_wait
    \/ poll_expiry_check("expiry1", "refresh")
    \/ poll_expiry_check("expiry2", "wait_table")
    \/ poll_refresh
    \/ wait_for_table
    \/ get_order_rows
    \/ poll_for_row
    \/ poll_row_done
    \/ process_row_guards
    \/ process_row_open_modal
    \/ process_row_find_take
    \/ process_row_close_modal
    \/ process_row_click_take
    \/ process_row_confirm

SpecRetry == InitRetry /\ [][NextRetry]_vars

\* ------------------------------------------- a candidate low in the listing
\* A run that has entered its poll loop, with a live session and no stop
\* request, in front of a listing that keeps receiving candidates: every
\* cycle enumerates the watched candidate as the last row, after up to
\* MaxRows - 1 others.  The watched candidate has a slug, is not in the
\* processed set and passes the range guard, so _process_row starts the claim
\* sequence when it reaches it.  op records whether that has happened and how
\* the rows before it ended in the current cycle.
InitStarve ==
    /\ thread = "alive"
    /\ stop_event = FALSE
    /\ driver = TRUE
    /\ cfg = [login |-> "u1", password |-> "pw", min_amount |-> None,
              max_amount |-> None]
    /\ processed_slugs = {}
    /\ pc = "loop_top"
    /\ ctl = "idle"
    /\ onLogin = FALSE
    /\ rowsLeft = 0
    /\ cur = NoRow
    /\ taken = FALSE
    /\ cycleSlugs = {}
    /\ attempts = [s \in Slugs |-> 0]
    /\ cycleClaims = 0
    /\ recovered = FALSE
    /\ nThreads = 1
    /\ nDrivers = 1
    /\ polled = FALSE
    /\ reauthFails = 0
    /\ op = [watched |-> "waiting", passed |-> {}]

\* how one call of _process_row ends: a return of False (skipped, Failed
\* reported, stale element), the return of True after on_order_taken, or an
\* exception that no clause of _process_row catches
RowExits == {"skip_processed", "stale", "wde", "no_alert", "success", "raised"}

\* _poll_once from its first line to the enumeration, nothing failing
poll_once_listing ==
    /\ pc = "expiry1"
    /\ pc' = "for_row"
    /\ rowsLeft' \in 1..MaxRows
    /\ op' = [op EXCEPT !.passed = {}]
    /\ UNCHANGED <<thread, stop_event, driver, cfg, processed_slugs, ctl,
                   onLogin, cur, taken, cycleSlugs, attempts, cycleClaims,
                   recovered, nThreads, nDrivers, polled, reauthFails>>

\* one call of _process_row, by its exit; the last row is the watched one
process_row_listed ==
    /\ pc = "process_row"
    /\ \E exit \in RowExits :
          /\ (rowsLeft = 0) => (exit # "skip_processed")
          /\ cur' = [NoRow EXCEPT !.exit = exit]
          /\ taken' = (exit = "success")
          /\ cycleClaims' = IF exit = "success"
                            THEN Min(cycleClaims + 1, MaxAttempts)
                            ELSE cycleClaims
          /\ pc' = IF exit = "raised" THEN "except" ELSE "row_ret"
          /\ op' = IF rowsLeft = 0
                   THEN [op EXCEPT !.watched = "attempted"]
                   ELSE [op EXCEPT !.passed = @ \cup {exit}]
    /\ UNCHANGED <<thread, stop_event, driver, cfg, processed_slugs, ctl,
                   onLogin, rowsLeft, cycleSlugs, attempts, recovered,
                   nThreads, nDrivers, polled, reauthFails>>

NextStarve ==
    \/ poll_loop_top
    \/ poll_once_listing
    \/ poll_for_row
    \/ process_row_listed
    \/ poll_row_done
    \/ poll_loop_except
    \/ poll_loop_wait

\* the worker thread is the only actor and is always scheduled again
SpecStarve == InitStarve /\ [][NextStarve]_vars /\ WF_vars(NextStarve)

\* --------------------------------------------- the notification setting
\* op is the bridge record with two more fields: settings_notify_taken, the
\* column the schema upgrade adds to the settings table (DEFAULT 1), and
\* toggles, the parity of the operator's presses of the toggle button since
\* construction (the processor is constructed with _notify_taken = True).
InitNotify ==
    /\ IdleWorker
    /\ \E loop \in BOOLEAN :
          op = [loop |-> loop, notify_taken |-> TRUE, chat_ids |-> {},
                n |-> 0, cb |-> IdleCb, tasks |-> <<>>,
                order_log |-> <<>>, delivered |-> <<>>,
                settings_notify_taken |-> TRUE, toggles |-> 0]

\* the handler reads settings.notify_taken off the row object before it
\* updates the row and the processor; a row object without that attribute
\* raises there and the handler ends
notify_toggle ==
    /\ IF "notify_taken" \in SettingsColumns
       THEN LET new_val == ~op.settings_notify_taken
            IN op' = [op EXCEPT !.settings_notify_taken = new_val,
                                !.notify_taken = new_val,
                                !.toggles = 1 - @]
       ELSE op' = [op EXCEPT !.toggles = 1 - @]
    /\ UNCHANGED wvars

NextNotify ==
    \/ \E chat_id \in Chats : register_chat(chat_id)
    \/ notify_toggle
    \/ send_failed_notification
    \/ broadcast
    \/ on_taken
    \/ on_failed
    \/ db_add_sync
    \/ on_taken_notify
    \/ on_failed_notify
    \/ tg_send_sync_send

SpecNotify == InitNotify /\ [][NextNotify]_vars

\* ------------------------------------- the amounts entered into the filter
\* Configured bounds and listed amounts are floats; here a number counts
\* Scale-ths of a rouble, so with Scale = 2 the value 3 stands for 1.5.  A
\* bound the settings dialogue stores is positive or None.  op holds what
\* _apply_amount_filter left in the filter widget (n visible inputs, their
\* content, which bound a single input was given, whether the submit went
\* through) and one listed amount with the local guard's verdict.
Scale == 2

MaxHalves == 4

ConfiguredBounds == {None} \cup 1..MaxHalves

ListedAmounts == 0..(MaxHalves + 1)

\* int(x): truncation toward zero of a non-negative float
int(x) == (x \div Scale) * Scale

InitFilter ==
    /\ thread = "alive"
    /\ stop_event = FALSE
    /\ driver = TRUE
    /\ \E mn \in ConfiguredBounds, mx \in ConfiguredBounds :
          cfg = [login |-> "u1", password |-> "pw", min_amount |-> mn,
                 max_amount |-> mx]
    /\ processed_slugs = {}
    /\ pc = "apply_filter"
    /\ ctl = "idle"
    /\ onLogin = FALSE
    /\ rowsLeft = 0
    /\ cur = NoRow
    /\ taken = FALSE
    /\ cycleSlugs = {}
    /\ attempts = [s \in Slugs |-> 0]
    /\ cycleClaims = 0
    /\ recovered = FALSE
    /\ nThreads = 1
    /\ nDrivers = 1
    /\ polled = FALSE
    /\ reauthFails = 0
    /\ op = [at |-> "entry", n |-> 0, first |-> None, second |-> None,
             mode |-> "between", applied |-> FALSE, amount |-> None,
             local |-> FALSE]

\* _apply_amount_filter from its entry to the end of the block that fills
\* the inputs: nothing to do without bounds; otherwise n inputs are visible
\* and receive str(int(bound))
apply_amount_filter_fill ==
    /\ pc = "apply_filter"
    /\ op.at = "entry"
    /\ IF cfg.min_amount = None /\ cfg.max_amount = None
       THEN op' = [op EXCEPT !.at = "skipped"]
       ELSE \E n \in 0..2 :
              op' = IF n >= 2
                    THEN [op EXCEPT
                            !.at = "filled", !.n = 2,
                            !.first = IF cfg.min_amount # None
                                      THEN int(cfg.min_amount) ELSE None,
                            !.second = IF cfg.max_amount # None
                                       THEN int(cfg.max_amount) ELSE None]
                    ELSE IF n = 1
                    THEN LET val == IF cfg.min_amount # None
                                    THEN cfg.min_amount ELSE cfg.max_amount
                         IN [op EXCEPT !.at = "filled", !.n = 1,
                                       !.mode = IF cfg.min_amount # None
                                                THEN "from" ELSE "to",
                                       !.first = int(val)]
                    ELSE [op EXCEPT !.at = "filled"]
    /\ UNCHANGED wvars

\* the submit button is clicked, or the wait for it times out
apply_amount_filter_submit ==
    /\ pc = "apply_filter"
    /\ op.at = "filled"
    /\ \E r \in {OK, TIMEOUT} :
          op' = [op EXCEPT !.at = "done", !.applied = (r = OK)]
    /\ UNCHANGED wvars

\* the local guard judges one amount
amount_guard ==
    /\ op.at \in {"done", "skipped"}
    /\ op.amount = None
    /\ \E a \in ListedAmounts :
          op' = [op EXCEPT !.amount = a, !.local = amount_in_range(a)]
    /\ UNCHANGED wvars

NextFilter ==
    \/ apply_amount_filter_fill
    \/ apply_amount_filter_submit
    \/ amount_guard

SpecFilter == InitFilter /\ [][NextFilter]_vars

\* ------------------------------------------------------------- properties
\* the worker is inside the claim sequence of _process_row for cur.slug, or
\* the invocation that just returned had opened the detail view
ClaimPcs == {"open_modal", "find_take", "close_modal", "click_take",
             "confirm_alert"}
InClaimSequence == pc \in ClaimPcs \/ cur.started
Returned == pc = "row_ret"

\* C1: once the claim sequence was started for a slug (its detail view was
\* opened), however it ended, it is not started again for that slug in a
\* later cycle of the same run: per run, at most one start per slug.
C1_Idempotency == \A s \in Slugs : attempts[s] <= 1

\* C2: whenever _process_row returns after having opened the detail view of
\* slug s, s is in the processed set, on every exit path.
C2_AddedOnEveryExit ==
    (Returned /\ cur.started) => cur.slug \in processed_slugs

\* the range condition as the claim states it
WithinBounds(a) ==
    /\ cfg.min_amount = None \/ (a # None /\ cfg.min_amount <= a)
    /\ cfg.max_amount = None \/ (a # None /\ a <= cfg.max_amount)

\* C3: the claim sequence is started only for a candidate whose amount is
\* within the configured bounds (each bound optional); with a bound
\* configured, a candidate with an unparsed amount is never attempted.
C3_FilterCorrectness == InClaimSequence => WithinBounds(cur.amount)

C3_Witness ==
    /\ cur.started
    /\ cfg.min_amount # None
    /\ cfg.max_amount # None
    /\ cur.amount = cfg.max_amount

\* C4 as stated: a candidate with an absent amount never enters the claim
\* sequence, whatever the filter.
C4_AbsentNeverAttempted == InClaimSequence => cur.amount # None

\* C4 amended: a candidate with an absent amount is rejected by the range
\* guard exactly when a bound is configured: it enters the claim sequence
\* only with both bounds absent, and the guard skips it only with a bound
\* present.
C4_AbsentAttemptedOnlyUnfiltered ==
    /\ (InClaimSequence /\ cur.amount = None) =>
          (cfg.min_amount = None /\ cfg.max_amount = None)
    /\ (Returned /\ cur.exit = "skip_range" /\ cur.amount = None) =>
          (cfg.min_amount # None \/ cfg.max_amount # None)

C4_Witness ==
    /\ Returned
    /\ cur.exit = "skip_range"
    /\ cur.amount = None
    /\ cfg.min_amount = None
    /\ cfg.max_amount # None

\* C5: on_order_taken is called for a slug only after Take was clicked and
\* the confirm dialog accepted; when the dialog never appeared the outcome
\* of the attempt is one on_order_failed for that slug and no on_order_taken.
C5_ClaimedOnlyAfterConfirm ==
    /\ cur.cbTaken > 0 =>
          (cur.clicked /\ cur.alert = "accepted" /\ cur.evSlug = cur.slug)
    /\ (Returned /\ cur.alert = "timeout") =>
          (cur.cbTaken = 0 /\ cur.cbFailed = 1 /\ cur.evSlug = cur.slug)

C5_Witness == Returned /\ cur.alert = "timeout" /\ cur.cbFailed = 1

\* the exits of a started claim sequence that the code itself logs as a
\* failed claim: Take button not found, confirm dialog never shown, driver
\* error (a stale element is logged as a skip)
FailedExits == {"no_take", "no_alert", "wde"}

\* C6: when a started claim sequence fails (the claim action fails, the
\* Take button is not found within its wait, or the confirmation fails),
\* on_order_failed was called with the slug and amount of the candidate.
C6_FailedEmitted ==
    (Returned /\ cur.started /\ cur.exit \in FailedExits) =>
        (cur.cbFailed >= 1 /\ cur.evSlug = cur.slug /\ cur.evAmount = cur.amount)

\* C7: after on_order_taken was called in a cycle, no further row of that
\* cycle is processed; at most one on_order_taken per cycle.
C7_EarlyExit ==
    /\ cycleClaims <= 1
    /\ cycleClaims >= 1 => pc \notin ClaimPcs \cup {"for_row", "process_row"}

C7_Witness == Returned /\ taken /\ cycleClaims = 1 /\ rowsLeft > 0

\* C8: every invocation of _process_row that opened the detail view has
\* called exactly one outcome callback when it returns.
C8_ExactlyOneOutcome ==
    (Returned /\ cur.started) => cur.cbTaken + cur.cbFailed = 1

\* C9: while a run lasts, no step removes a slug from the processed set,
\* re-authentication included.
C9_ProcessedOnlyGrows ==
    [][(thread = "alive" /\ thread' = "alive") =>
          processed_slugs \subseteq processed_slugs']_vars

C9_Witness ==
    /\ recovered
    /\ Returned
    /\ cur.exit = "skip_processed"

\* C10: a new run begins with an empty processed set.
C10_ClearedOnStart == pc = "create_driver" => processed_slugs = {}

\* some call start(login, password, min_amount, max_amount) of the control
\* surface
StartCall ==
    \E login \in Logins, password \in Passwords,
       mn \in FilterBounds, mx \in FilterBounds :
       start(login, password, mn, mx)

\* C11: under every interleaving of start, stop (its join timing out
\* included) and the worker's own steps, at most one worker thread is alive
\* and at most one browser driver exists; the thread object reports alive
\* exactly when that one thread runs.
C11_SingleWorkerSingleDriver ==
    /\ nThreads <= 1
    /\ nDrivers <= 1
    /\ (thread = "alive") <=> (nThreads = 1)
    /\ driver <=> (nDrivers = 1)

\* stop() has returned on the join timeout while the worker, holding its
\* driver, still runs: the state in which a start request meets a live thread
C11_Witness ==
    /\ thread = "alive" /\ stop_event /\ ctl = "idle" /\ driver
    /\ pc \in ClaimPcs

\* C12: a start() that finds the worker alive changes nothing (no thread
\* launched, credentials, filter, stop event and processed set as they
\* were), and no step taken while the worker is alive changes the
\* credentials or the filter it was started with.
C12_StartWhileRunningNoOp ==
    [][/\ (thread = "alive" /\ StartCall) => UNCHANGED wvars
       /\ (thread = "alive") => (cfg' = cfg /\ nThreads' <= nThreads)]_vars

\* a running worker with a numeric filter, a non-empty processed set and the
\* stop event set, with the control surface free to call start()
C12_Witness ==
    /\ thread = "alive" /\ ctl = "idle" /\ stop_event
    /\ cfg.min_amount = 1 /\ cfg.max_amount = None
    /\ processed_slugs # {}

\* the credentials the start request in progress loaded are missing or empty
CredentialsMissing == op.snap.login = "" \/ op.snap.password = ""

\* C13: OrderProcessor.start() returns false exactly when the stored login
\* or password is missing or empty, launching no worker and leaving
\* is_active alone; otherwise it returns true, and then a worker thread has
\* been launched and is alive.
C13_StartResult ==
    op.req = "done" =>
        /\ op.ret \in {"false", "true"}
        /\ (op.ret = "false") <=> CredentialsMissing
        /\ (op.ret = "false") => (thread # "alive" /\ ~op.is_active)
        /\ (op.ret = "true") => (thread = "alive" /\ nThreads = 1)

\* C14: stop() changes nothing but the stop event and the caller's position:
\* it is safe with no worker running, a second stop() leaves the state the
\* first one produced, and a start() after it launches a worker with the
\* event cleared, so the flag a stop left set does not cancel the new run.
C14_StopIdempotent ==
    [][/\ (stop \/ stop_join) =>
             UNCHANGED <<thread, driver, cfg, processed_slugs, pc, onLogin,
                         rowVars, recovered, nThreads, ghostVars>>
       /\ (stop /\ stop_event) => UNCHANGED stop_event
       /\ (stop /\ thread = "none") => ctl' = "idle"
       /\ stop_join => (ctl' = "idle" /\ UNCHANGED stop_event)
       /\ (thread # "alive" /\ thread' = "alive") =>
             (~stop_event' /\ pc' = "create_driver" /\ nThreads' = 1)]_vars

\* a run launched after a stopped run (the processed set of the earlier run
\* is still there, nothing was attempted yet in this one) has entered a poll
\* cycle with the stop event clear
C14_Witness ==
    /\ thread = "alive" /\ polled /\ pc = "expiry1" /\ ~stop_event
    /\ processed_slugs # {}
    /\ \A s \in Slugs : attempts[s] = 0
    /\ cycleSlugs = {}

\* C15: when the stop event is set while the worker sits in the wait
\* between cycles, the event stays set, the wait can only end at the loop
\* test, and the loop test can only leave the loop: no step of another cycle
\* is taken.
C15_StopDuringWait ==
    [][(stop_event /\ thread = "alive" /\ pc \in {"wait", "loop_top"}) =>
          /\ stop_event'
          /\ (pc = "wait") => (pc' \in {"wait", "loop_top"})
          /\ (pc = "loop_top") => (pc' \in {"loop_top", "quit"})]_vars

\* stop() was called, and is joining, while the worker waits after a cycle
\* that processed a row
C15_Witness ==
    /\ pc = "wait" /\ stop_event /\ ctl = "joining" /\ thread = "alive"
    /\ cycleSlugs # {}

\* an upper bound on the worker steps left before the thread ends once the
\* stop event is set, by position
StepsLeft(p) ==
    CASE p = "done" -> 0
      [] p = "quit" -> 1
      [] p \in {"loop_top", "except"} -> 2
      [] p \in {"wait", "apply_filter"} -> 3
      [] p \in {"for_row", "reauth", "navigate"} -> 4
      [] p \in {"row_ret", "create_driver"} -> 5
      [] p \in {"confirm_alert", "close_modal"} -> 6
      [] p = "click_take" -> 7
      [] p = "find_take" -> 8
      [] p = "open_modal" -> 9
      [] p = "process_row" -> 10
      [] p = "get_rows" -> 11
      [] p = "wait_table" -> 12
      [] p = "expiry2" -> 13
      [] p = "refresh" -> 14
      [] OTHER -> 15

\* C16: stop() sets the event and can always return from its join, whether
\* or not the worker has ended; once the event is set it stays set while
\* the worker lives, the worker always has a step to take, and each step it
\* takes brings it strictly closer to the end of the thread, so a worker
\* whose driver calls return ends; whenever the worker is not alive the
\* teardown has run: the driver is released and is_running() is false.
C16_Termination ==
    /\ [](thread # "alive" =>
             (~driver /\ nDrivers = 0 /\ nThreads = 0 /\ pc = "done"))
    /\ [](thread = "alive" => (pc # "done" /\ ENABLED WorkerStep))
    /\ [](ctl = "joining" => (stop_event /\ ENABLED stop_join))
    /\ [][(stop_event /\ thread = "alive") =>
             /\ stop_event'
             /\ (pc' # pc) => (StepsLeft(pc') < StepsLeft(pc))]_vars

\* the worker of a run that polled and attempted a claim has ended after a
\* stop(), its driver released
C16_Witness ==
    /\ thread = "dead" /\ ~driver /\ stop_event /\ polled
    /\ \E s \in Slugs : attempts[s] > 0

\* the positions at which a coarse-grained step of a cycle begins:
\* re-authentication, refresh, the expiry check after it, the table wait,
\* the enumeration, the processing of a candidate
CycleStepStarts == {"reauth", "refresh", "expiry2", "wait_table", "get_rows",
                    "process_row"}

\* C17: once the stop event is set the worker begins no further step of the
\* cycle; only the step in progress completes.
C17_NoStepAfterStop ==
    [][(stop_event /\ thread = "alive" /\ pc' # pc) =>
          pc' \notin CycleStepStarts]_vars

\* the positions of _poll_loop and of everything it calls
LoopPcs == {"loop_top", "expiry1", "reauth", "refresh", "expiry2",
            "wait_table", "get_rows", "for_row", "process_row", "row_ret",
            "except", "wait"} \cup ClaimPcs

\* C18: inside the poll loop the worker stays alive and goes to the
\* teardown only with the stop event set; an exception that reached the
\* handler of the loop is followed, unless stop was signalled, by the wait
\* and then by a new cycle that reads the listing afresh.
C18_CycleIsolation ==
    [][(pc \in LoopPcs /\ pc' # pc) =>
          /\ thread' = "alive"
          /\ pc' \in LoopPcs \cup {"quit"}
          /\ (pc' = "quit") => (stop_event /\ pc \in {"loop_top", "except"})
          /\ (pc = "except" /\ ~stop_event) => (pc' = "wait")
          /\ (pc = "wait") => (pc' = "loop_top")
          /\ (pc = "loop_top" /\ ~stop_event) =>
                (pc' = "expiry1" /\ cycleSlugs' = {} /\ cur' = NoRow)]_vars

\* processing a candidate raised an exception that left _process_row, rows
\* of that cycle were still unprocessed, and the worker, not stopped, is in
\* the wait that precedes the next cycle
C18_Witness ==
    /\ pc = "wait" /\ thread = "alive" /\ ~stop_event
    /\ cur.exit = "raised" /\ cur.slug # NoSlug /\ rowsLeft > 0

\* the positions of _run before _poll_loop
StartupPcs == {"create_driver", "navigate", "apply_filter"}

\* C19: a run that ends before it entered the poll loop (driver creation,
\* initial navigation and login, or initial filter application failed) ends
\* with the thread dead, so is_running() is false, with the driver
\* released and with no outcome callback invoked; a start() called then
\* launches a new run.  During startup no callback has been invoked either.
C19_StartupFailureClean ==
    /\ (pc \in StartupPcs) =>
          (thread = "alive" /\ ~polled /\ cur = NoRow)
    /\ (thread = "dead" /\ ~polled) =>
          /\ ~driver /\ nDrivers = 0 /\ nThreads = 0
          /\ pc = "done"
          /\ cur = NoRow
          /\ \A s \in Slugs : attempts[s] = 0
          /\ (ctl = "idle") =>
                ENABLED (StartCall /\ thread' = "alive"
                                   /\ pc' = "create_driver")

\* the initial login failed (the browser is still on the login page) and
\* the run has ended without entering the poll loop
C19_Witness ==
    /\ thread = "dead" /\ ~polled /\ onLogin /\ ctl = "idle" /\ ~stop_event

\* C20: re-authentication, whatever its result and however many times it
\* failed before, leaves the worker alive with the credentials it was
\* started with and is followed by the wait before the next cycle; every
\* expiry check runs re-authentication exactly when it finds the session
\* expired, with no limit on the number of failures; after a failure the
\* worker, unless stopped, goes on to the next cycle.
C20_ReauthRetried ==
    [][/\ (pc = "reauth" /\ pc' # pc) =>
             (pc' = "wait" /\ thread' = "alive" /\ cfg' = cfg /\ driver')
       /\ (pc \in {"expiry1", "expiry2"} /\ pc' # pc) =>
             (pc' = "reauth") <=> onLogin
       /\ (pc \in {"wait", "loop_top"} /\ reauthFails > 0 /\ pc' # pc
             /\ ~stop_event) => pc' \in {"loop_top", "expiry1"}]_vars

\* re-authentication has failed MaxReauthFails times in a row, the session
\* is still expired, and the worker is running it once more
C20_Witness ==
    /\ pc = "reauth" /\ thread = "alive" /\ onLogin
    /\ reauthFails = MaxReauthFails

\* C21: an establish or re-establish that ends with the browser still on
\* the login form leaves the worker running and on its way to another
\* attempt, at the start of a run as well as during polling.
C21_AuthFailureRetried ==
    [][(pc \in {"navigate", "reauth"} /\ pc' # pc /\ onLogin') =>
          (thread' = "alive" /\ pc' \in {"wait", "loop_top"})]_vars

\* C22: a cycle that finds the session expired, at its start or after the
\* refresh, runs re-authentication and nothing else: when re-authentication
\* begins nothing was enumerated or attempted in the cycle, and whatever its
\* result the cycle ends there, at the wait, with nothing enumerated, nothing
\* attempted and the processed set as it was.
C22_ExpiryEndsCycle ==
    /\ [](pc = "reauth" =>
             (onLogin /\ cur = NoRow /\ cycleSlugs = {} /\ cycleClaims = 0))
    /\ [][/\ (pc \in {"expiry1", "expiry2"} /\ onLogin /\ pc' # pc) =>
                (pc' = "reauth")
          /\ (pc = "reauth" /\ pc' # pc) =>
                /\ pc' = "wait"
                /\ UNCHANGED <<rowVars, processed_slugs>>]_vars

\* the refresh redirected to the login form, the session was re-established
\* (the filter step then failed) and the cycle has ended with no candidate
\* looked at
C22_Witness ==
    /\ pc = "wait" /\ thread = "alive" /\ recovered /\ ~onLogin
    /\ reauthFails = 1 /\ cur = NoRow /\ cycleSlugs = {}
    /\ processed_slugs # {}

\* C28: applying the filter at startup never ends the run: whatever step
\* fails and with whatever error, _apply_amount_filter returns and the
\* worker enters the poll loop.
C28_FilterNeverRaises ==
    [][(pc = "apply_filter" /\ pc' # pc) => (pc' = "loop_top")]_vars

\* C30: when _process_row has returned for a row without a slug, no detail
\* view was opened and neither outcome callback was invoked.
C30_SluglessRowIgnored ==
    (Returned /\ cur.slug = NoSlug) =>
        (~cur.started /\ cur.cbTaken = 0 /\ cur.cbFailed = 0)

\* The parsing rule as the specification words it: keep digits, comma, dot
\* and space; when the last dot follows the last comma or there is no comma,
\* drop commas and spaces; otherwise drop dots and spaces and read the comma
\* as the decimal point; parse; take the absolute value.
ReferenceParse(title) ==
    LET kept == re_sub(title)
        commas == {i \in 1..Len(kept) : kept[i] = ","}
        dots == {i \in 1..Len(kept) : kept[i] = "."}
        us == \/ commas = {}
              \/ \E d \in dots : \A c \in commas : c < d
        text == IF us
                THEN SelectSeq(kept, LAMBDA c : c \notin {",", " "})
                ELSE [i \in 1..Len(SelectSeq(kept, LAMBDA c : c \notin {".", " "}))
                        |-> LET r == SelectSeq(kept, LAMBDA c : c \notin {".", " "})
                            IN IF r[i] = "," THEN "." ELSE r[i]]
        f == float(text)
    IN IF f = ValueError THEN NoneResult ELSE abs(f)

SameAmount(x, y) ==
    /\ x.kind = y.kind
    /\ x.num * y.den = y.num * x.den

Parsed == "result" \in DOMAIN op /\ op.result # NoParse

\* C29: whatever the title, _parse_amount_title returns without raising,
\* the result is None or a non-negative number, it equals the reference
\* algorithm, and the three documented examples give 10000.00, 1500.50 and
\* None.
C29_ParseMatchesReference ==
    Parsed =>
        /\ op.result.kind \in {"None", "float"}
        /\ op.result.num >= 0
        /\ SameAmount(op.result, ReferenceParse(op.title))
        /\ op.title = <<"R", "U", "B", " ", "-", "1", "0", ",", "0", "0", "0",
                        ".", "0", "0">>
              => SameAmount(op.result, [kind |-> "float", num |-> 10000, den |-> 1])
        /\ op.title = <<"R", "U", "B", " ", "1", " ", "5", "0", "0", ",", "5", "0">>
              => SameAmount(op.result, [kind |-> "float", num |-> 15005, den |-> 10])
        /\ op.title = <<"g", "a", "r", "b", "a", "g", "e">>
              => op.result = NoneResult

C29_Witness ==
    /\ Parsed
    /\ op.title = <<"R", "U", "B", " ", "1", " ", "5", "0", "0", ",", "5", "0">>
    /\ op.result = [kind |-> "float", num |-> 150050, den |-> 100]

OnBridge == "cb" \in DOMAIN op

\* C23: with the event loop available, the automation thread is never itself
\* performing the sink's I/O (the order_log insert or a message send).
C23_FireAndForget ==
    (OnBridge /\ op.loop) => op.cb.at \notin {"db", "send"}

\* C24: without the event loop, once a callback has returned the order_log
\* holds a record with the event's slug and status.
C24_DurableWithoutLoop ==
    (OnBridge /\ ~op.loop /\ op.cb.at = "idle" /\ op.cb.slug # 0) =>
        \E i \in 1..Len(op.order_log) :
            op.order_log[i] = [slug |-> op.cb.slug, status |-> op.cb.status]

\* C25: records are persisted, and messages reach each recipient, in the
\* order in which the claims were attempted.
C25_OutcomeOrder ==
    OnBridge =>
        /\ \A i, j \in 1..Len(op.order_log) :
              i < j => op.order_log[i].slug < op.order_log[j].slug
        /\ \A i, j \in 1..Len(op.delivered) :
              (i < j /\ op.delivered[i].chat_id = op.delivered[j].chat_id)
                 => op.delivered[i].slug <= op.delivered[j].slug

Complete(b) == b.began \subseteq (b.tried \cup {b.todo[k] : k \in 1..Len(b.todo)})

\* C27: a broadcast iterates the recipients registered when it began, whatever
\* is registered meanwhile: it never fails, every such recipient is either
\* already attempted or still ahead (all are attempted once it has ended),
\* and the callback on the automation thread can always take its next step.
C27_AddWhileIterating ==
    OnBridge =>
        /\ op.cb.at # "raised"
        /\ Complete(op.cb)
        /\ op.cb.at # "send" => op.cb.todo = <<>>
        /\ \A i \in 1..Len(op.tasks) :
              /\ Complete(op.tasks[i])
              /\ op.tasks[i].at = "done" => op.tasks[i].todo = <<>>
        /\ op.cb.at # "idle" => ENABLED CallbackStep

C27_Witness ==
    /\ OnBridge
    /\ op.chat_ids = {1, 2}
    /\ op.cb.at = "send" /\ op.cb.began = {1} /\ op.cb.todo = <<1>>
    /\ \E i \in 1..Len(op.tasks) :
          /\ op.tasks[i].at = "running"
          /\ op.tasks[i].began = {1} /\ op.tasks[i].todo = <<1>>

Owned == <<driver, processed_slugs, onLogin>>

\* C26: a step of the control surface (start, stop, is_running, register_chat,
\* the retry and skip handlers, a settings change) taken while the worker
\* thread is alive leaves the driver handle, the processed set and the session
\* state as they are, together with the worker's position.
C26_Ownership ==
    [][(HandlerStep /\ thread = "alive") => UNCHANGED <<Owned, pc, rowVars>>]_vars

C26_Witness ==
    /\ thread = "alive" /\ driver /\ pc = "wait"
    /\ processed_slugs # {} /\ op.retry_slug \in processed_slugs
    /\ op.ret = "retry" /\ op.chat_ids # {}

\* C31 as stated: when a claim attempt is under way and no bound is
\* configured, every candidate listed before it in this cycle is in the
\* processed set or was itself attempted: no candidate with a slug, outside
\* the processed set and passing the guard was passed over.
C31_FirstEligibleFirst ==
    (cur.started /\ cfg.min_amount = None /\ cfg.max_amount = None) =>
        \A s \in cycleSlugs \ {cur.slug} :
            s \in processed_slugs \/ attempts[s] >= 1

DriverFailureExits == {"no_anchor", "stale", "wde"}

\* C31 amended: rows are processed one after the other in listing order, and
\* a candidate that has a slug, is not in the processed set and passes the
\* range guard is left without a claim attempt only when a driver call on its
\* row failed before the detail view opened (link not found, stale element,
\* other driver error); an attempt is made only on a row with a slug.
C31_PassedOverOnlyOnDriverFailure ==
    /\ (Returned /\ ~cur.started /\ cur.slug # NoSlug
          /\ cur.slug \notin processed_slugs /\ WithinBounds(cur.amount))
          => cur.exit \in DriverFailureExits
    /\ cur.started => (cur.slug \in cycleSlugs /\ cur.exit # "skip_range")

C31_Witness ==
    /\ cur.started /\ cur.slug = "trade-b"
    /\ cycleSlugs = {"trade-a", "trade-b"}
    /\ "trade-a" \in processed_slugs /\ attempts["trade-a"] = 0
    /\ cfg.min_amount # None /\ cur.amount = cfg.min_amount

\* C32: once Retry was accepted for a slug, the worker, when it next
\* processes a row showing that slug, does not skip it as already processed.
C32_RetryHonoured ==
    [][(pc = "process_row" /\ pc' = "row_ret" /\ op.ret = "retry"
          /\ cur'.slug = op.retry_slug)
          => cur'.exit # "skip_processed"]_vars

\* C33: when the cycle has ended (the worker is in the wait between cycles)
\* and the last _process_row of the cycle returned without a confirmed claim,
\* either no row of the enumerated list was left or the stop event is set:
\* a skipped or failed candidate alone never ends the cycle.
C33_FailureDoesNotEndCycle ==
    (pc = "wait" /\ cur.exit \notin {"none", "raised", "success"} /\ rowsLeft > 0)
        => stop_event

C33_Witness ==
    /\ cur.started /\ cur.slug = "trade-b" /\ ~stop_event
    /\ cycleSlugs = {"trade-a", "trade-b"} /\ cycleClaims = 0
    /\ attempts["trade-a"] = 1 /\ "trade-a" \notin processed_slugs

\* C34: with the stop event set and no claim sequence in progress, no step of
\* the worker enters a claim sequence.
C34_NoClaimAfterStop ==
    [][(stop_event /\ thread = "alive" /\ pc \notin ClaimPcs /\ pc' # pc)
          => pc' \notin ClaimPcs]_vars

\* a step in which an outcome callback is invoked for slug s
OutcomeStep(s) ==
    /\ cur'.cbTaken + cur'.cbFailed > cur.cbTaken + cur.cbFailed
    /\ cur'.evSlug = s

\* C35: a slug for which a Failed outcome was reported in this run (the
\* operator has pressed Retry on its notification, and the run has not
\* ended since) gets no further outcome, Claimed or Failed, in this run.
C35_OneOutcomePerSlug ==
    [][\A s \in Slugs :
          (op.ret = "retry" /\ op.retry_slug = s /\ thread = "alive")
             => ~OutcomeStep(s)]_vars

C37_ToggleApplies ==
    [][(op.toggles = 1 /\ op.cb.at = "notify" /\ op.cb.status = "taken"
          /\ op'.cb # op.cb)
         => op'.cb.at # "send"]_vars


RemoteAdmits(a) ==
    \/ ~op.applied
    \/ op.n = 0
    \/ /\ op.n = 2
       /\ (op.first = None \/ a >= op.first)
       /\ (op.second = None \/ a <= op.second)
    \/ /\ op.n = 1
       /\ IF op.mode = "from" THEN a >= op.first ELSE a <= op.first

\* C39: the values _apply_amount_filter enters never make the remote filter
\* stricter than the local guard: an amount that _amount_in_range admits is
\* admitted by the remote filter as filled in.
C39_RemoteNoStricter ==
    ("local" \in DOMAIN op /\ op.amount # None /\ op.local)
        => RemoteAdmits(op.amount)

====
